---- MODULE Spec2Model ----
(***************************************************************************)
(* Model of the image conversion service of src/main.rs: the POST /convert *)
(* handler (upload receiver, task id allocation under the counter mutex,   *)
(* output naming, conversion engine) and the GET /download handler, over a *)
(* shared file system.  Strings are sequences of one-character strings,    *)
(* file contents are sequences of bytes (naturals).                        *)
(***************************************************************************)
EXTENDS Integers, Sequences, FiniteSets, TLC

\* Number of POST /convert requests in flight over the life of the model.
MaxRequests == 2

\* i32::MAX, the width of task_id_counter (Mutex<i32>).
MaxI32 == 2147483647

\* The bounding box of img.thumbnail(256, 256).
IcoBox == 256

--------------------------------------------------------------------------
\* Option<T>: None is the empty sequence, Some(x) the one-element sequence.
None == <<>>
Some(x) == <<x>>

--------------------------------------------------------------------------
\* String literals of the program.
Slash == "/"
Dot == "."
DotDot == <<".", ".">>
uploads == <<"u", "p", "l", "o", "a", "d", "s">>
downloads == <<"d", "o", "w", "n", "l", "o", "a", "d", "s">>
png == <<"p", "n", "g">>
jpg == <<"j", "p", "g">>
gif == <<"g", "i", "f">>
bmp == <<"b", "m", "p">>
webp == <<"w", "e", "b", "p">>
ico == <<"i", "c", "o">>
tiff == <<"t", "i", "f", "f">>

\* (a match whose default arm saves as PNG)
ImageFormat_default(fmt) ==
    CASE fmt = jpg -> 2
      [] fmt = gif -> 3
      [] fmt = bmp -> 4
      [] fmt = webp -> 5
      [] fmt = ico -> 6
      [] fmt = tiff -> 7
      [] OTHER -> 1

\* The arms of the match on output_format; 0 is the default arm.
ImageFormat(fmt) ==
    CASE fmt = png -> 1
      [] fmt = jpg -> 2
      [] fmt = gif -> 3
      [] fmt = bmp -> 4
      [] fmt = webp -> 5
      [] fmt = ico -> 6
      [] fmt = tiff -> 7
      [] OTHER -> 0

Supported == {png, jpg, gif, bmp, webp, ico, tiff}

--------------------------------------------------------------------------
\* std::path: splitting a path string into components.
RECURSIVE SplitOn(_, _)
SplitOn(s, sep) ==
    IF \A i \in 1..Len(s) : s[i] # sep
    THEN <<s>>
    ELSE LET i == CHOOSE k \in 1..Len(s) :
                      s[k] = sep /\ \A j \in 1..(k - 1) : s[j] # sep
         IN <<SubSeq(s, 1, i - 1)>> \o SplitOn(SubSeq(s, i + 1, Len(s)), sep)

IsAbsolute(s) == Len(s) > 0 /\ s[1] = Slash

\* Path::join: an absolute argument replaces the base.
PathJoin(base, s) == IF IsAbsolute(s) THEN s ELSE base \o <<Slash>> \o s

\* Path::components drops empty and "." components.  Path::file_name is the
\* last component that is left, unless that is "..".
KeptComponent(c) == c # <<>> /\ c # <<Dot>>
PathFileName(s) ==
    LET cs == SelectSeq(SplitOn(s, Slash), KeptComponent)
    IN IF cs = <<>> \/ cs[Len(cs)] = DotDot THEN None ELSE Some(cs[Len(cs)])

\* Path::file_stem: the file name up to its last dot, the whole name when it
\* has no dot or only a leading one.
LastDot(name) == CHOOSE k \in 1..Len(name) :
                     name[k] = Dot /\ \A j \in (k + 1)..Len(name) : name[j] # Dot
PathFileStem(s) ==
    LET fn == PathFileName(s)
    IN IF fn = None THEN None
       ELSE LET name == fn[1]
            IN IF \A i \in 1..Len(name) : name[i] # Dot THEN Some(name)
               ELSE IF LastDot(name) = 1 THEN Some(name)
               ELSE Some(SubSeq(name, 1, LastDot(name) - 1))

\* Display of an i32.
DigitChar(d) == <<"0", "1", "2", "3", "4", "5", "6", "7", "8", "9">>[d + 1]
RECURSIVE NatToStr(_)
NatToStr(n) == IF n < 10 THEN <<DigitChar(n)>>
               ELSE NatToStr(n \div 10) \o <<DigitChar(n % 10)>>
IntToStr(n) == IF n < 0 THEN <<"-">> \o NatToStr(-n) ELSE NatToStr(n)

--------------------------------------------------------------------------
\* The file system below the working directory.  A resolved path is the
\* sequence of its components; main creates the two directories.
Dirs == {<<>>, <<uploads>>, <<downloads>>}

RECURSIVE ResolveFrom(_, _)
ResolveFrom(cs, cur) ==
    IF cs = <<>> THEN Some(cur)
    ELSE IF cur \notin Dirs THEN None
    ELSE IF ~KeptComponent(Head(cs)) THEN ResolveFrom(Tail(cs), cur)
    ELSE IF Head(cs) = DotDot
         THEN IF cur = <<>> THEN None
              ELSE ResolveFrom(Tail(cs), SubSeq(cur, 1, Len(cur) - 1))
    ELSE ResolveFrom(Tail(cs), Append(cur, Head(cs)))

\* The file a relative path string names, None when a component is missing
\* or the path leaves the working directory.
Resolve(s) == IF IsAbsolute(s) THEN None ELSE ResolveFrom(SplitOn(s, Slash), <<>>)

\* File::create succeeds on a path that names a file in an existing directory.
CanCreate(s) == Resolve(s) # None /\ Resolve(s)[1] \notin Dirs

\* A write of bytes at the offset of a file handle; a hole reads as zeros.
RECURSIVE Zeros(_)
Zeros(n) == IF n <= 0 THEN <<>> ELSE <<0>> \o Zeros(n - 1)
WriteAt(content, off, bytes) ==
    LET padded == content \o Zeros(off - Len(content))
    IN SubSeq(padded, 1, off) \o bytes
         \o SubSeq(padded, off + Len(bytes) + 1, Len(padded))

--------------------------------------------------------------------------
\* The image codecs: an encoded image is its format tag, width, height and
\* pixel data.
Encode(img, fmt) == <<ImageFormat(fmt), img.w, img.h, img.pix>>

Decode(bytes) ==
    IF Len(bytes) = 4 /\ bytes[1] \in 1..7 /\ bytes[2] >= 1 /\ bytes[3] >= 1
    THEN Some([w |-> bytes[2], h |-> bytes[3], pix |-> bytes[4]])
    ELSE None

Max(a, b) == IF a >= b THEN a ELSE b

\* DynamicImage::thumbnail(nw, nh): fit into the box, keeping the aspect ratio.
Thumbnail(img, nw, nh) ==
    LET useWidth == nw * img.h <= img.w * nh
    IN IF useWidth
       THEN [img EXCEPT !.w = nw, !.h = Max(1, (img.h * nw) \div img.w)]
       ELSE [img EXCEPT !.w = Max(1, (img.w * nh) \div img.h), !.h = nh]

\* (a conversion that never resizes)
Resized_never(img, output_format) == img

\* if output_format == "ico" { img = img.thumbnail(256, 256); }
Resized(img, output_format) ==
    IF output_format = ico THEN Thumbnail(img, IcoBox, IcoBox) ELSE img

--------------------------------------------------------------------------
\* The requests a client may send to POST /convert: the output_format query
\* parameter and the multipart fields, each with its filename (None when the
\* content disposition carries none) and its chunks.
wellFormed == <<<<4, 2>>, <<1, 7>>>>
garbage == <<<<9>>>>
name_a == <<"a", ".", "b", "m", "p">>
name_a1x == <<"a", "_", "1", ".", "x", ".", "b", "m", "p">>
name_sub == <<"s", "/", "a", ".", "b", "m", "p">>
name_up == <<".", ".", "/">> \o downloads \o <<"/", "a", "_", "1", ".", "p", "n", "g">>
fmt_x2png == <<"x", "_", "2", ".", "p", "n", "g">>

File(name, chunks) == [filename |-> Some(name), chunks |-> chunks]
NoFilename == [filename |-> None, chunks |-> garbage]
Request(fmt, parts) == [output_format |-> fmt, parts |-> parts]

Inputs == {
    Request(png, <<File(name_a, wellFormed)>>),
    Request(png, <<File(name_a1x, wellFormed)>>),
    Request(fmt_x2png, <<File(name_a, wellFormed)>>),
    Request(fmt_x2png, <<File(name_a, garbage)>>),
    Request(png, <<>>),
    Request(png, <<File(name_a, wellFormed), NoFilename>>),
    Request(png, <<NoFilename, File(name_a, wellFormed)>>),
    Request(png, <<File(name_sub, wellFormed), NoFilename>>),
    Request(png, <<File(name_up, garbage)>>) }

\* The names a client may ask GET /download/{filename} for.
DownloadNames == {
    <<"a", "_", "1", ".", "p", "n", "g">>,
    <<"a", "_", "2", ".", "p", "n", "g">>,
    <<"a", "_", "1", ".", "x", "_", "2", ".", "p", "n", "g">> }

--------------------------------------------------------------------------
VARIABLES
    task_id_counter,  \* AppState.task_id_counter, the value inside the Mutex
    mutex,            \* the request holding the MutexGuard, 0 when unlocked
    poisoned,         \* the Mutex's poison flag
    files,            \* the files below the working directory: path -> bytes
    req,              \* each POST /convert request: its multipart body, the
                      \* stream's position in it, the handler's locals and
                      \* the handler's position
    download,         \* the last response of GET /download/{filename}
    call              \* a call of one of the program's pure functions on its
                      \* own: its arguments and its outcome

vars == <<task_id_counter, mutex, poisoned, files, req, download, call>>

Requests == 1..MaxRequests

\* No function is being called on its own.
NoCall == [fn |-> "none"]

NoResponse == [status |-> 0, body |-> "", task_id |-> 0, converted_file |-> <<>>]
Response(status, body) ==
    [status |-> status, body |-> body, task_id |-> 0, converted_file |-> <<>>]

\* The state main builds: the counter at 0, empty directories, no request.
Fresh ==
    /\ task_id_counter = 0
    /\ mutex = 0
    /\ poisoned = FALSE
    /\ files = [p \in {} |-> <<>>]
    /\ req = [r \in Requests |->
                [pc |-> "idle",
                 output_format |-> <<>>,
                 payload |-> <<>>,
                 next |-> 1,
                 chunks |-> <<>>,
                 f |-> [path |-> <<>>, off |-> 0],
                 file_path |-> None,
                 original_filename |-> <<>>,
                 task_id |-> None,
                 output_file_path |-> <<>>,
                 img |-> [w |-> 0, h |-> 0, pix |-> 0],
                 response |-> NoResponse]]
    /\ download = [name |-> <<>>, status |-> 0, body |-> <<>>]

\* The server after main's construction; no function is called on its own.
Init == Fresh /\ call = NoCall

--------------------------------------------------------------------------
\* The handler's ways out.  Leaving the block of line 50 drops the guard.
Set(r, rec) == [req EXCEPT ![r] = rec]

Respond(r, status, body) ==
    [req[r] EXCEPT !.pc = "done", !.response = Response(status, body)]

\* A panic unwinds the handler: the connection gets no response.
Panicked(r) == [req[r] EXCEPT !.pc = "done", !.response = Response(0, "panic")]

\* (an allocator that forgets the + 1)
NextTaskId_same(counter) == counter

\* let task_id = *task_id_counter + 1, on an i32 (wrapping in a release build).
NextTaskId(counter) == IF counter = MaxI32 THEN -MaxI32 - 1 ELSE counter + 1

\* (a counter that is not locked)
Unlocked_always(r) == TRUE

\* lock() blocks while another request holds the guard.
Unlocked(r) == mutex = 0

\* (a handler that goes on without an uploaded file)
FileUploaded_any(file_path) == TRUE

\* if let Some(input_file_path) = file_path
FileUploaded(file_path) == file_path # None

\* (a namer that leaves the task id out)
generate_output_filepath_noid(filename, output_format, task_id) ==
    LET stem == PathFileStem(filename)
    IN IF stem = None THEN None
       ELSE Some(PathJoin(downloads, stem[1] \o <<Dot>> \o output_format))

\* generate_output_filepath: None when file_stem().unwrap() panics.
generate_output_filepath(filename, output_format, task_id) ==
    LET stem == PathFileStem(filename)
    IN IF stem = None THEN None
       ELSE Some(PathJoin(downloads,
                stem[1] \o <<"_">> \o IntToStr(task_id) \o <<Dot>> \o output_format))

\* The reference built from the whole path instead of its file name.
ConvertedFile_path(output_file_path) ==
    <<Slash>> \o <<"d", "o", "w", "n", "l", "o", "a", "d">> \o <<Slash>>
        \o output_file_path

\* format!("/download/{}", output_file_path.file_name())
ConvertedFile(output_file_path) ==
    <<Slash>> \o <<"d", "o", "w", "n", "l", "o", "a", "d">> \o <<Slash>>
        \o PathFileName(output_file_path)[1]

--------------------------------------------------------------------------
\* A POST /convert request reaches the handler.
Arrive(r, input) ==
    /\ req[r].pc = "idle"
    /\ req' = Set(r, [req[r] EXCEPT !.pc = "recv",
                                    !.output_format = input.output_format,
                                    !.payload = input.parts])
    /\ UNCHANGED <<task_id_counter, mutex, poisoned, files, download>>
    /\ UNCHANGED call

\* (an upload path that is keyed by the request as well as by the filename)
StoreField_keyed(r, field) ==
    LET filepath == PathJoin(uploads, IntToStr(r) \o <<"_">> \o field.filename[1])
    IN IF ~CanCreate(filepath)
       THEN /\ req' = Set(r, Respond(r, 500, "io error"))
            /\ UNCHANGED files
       ELSE /\ files' = (Resolve(filepath)[1] :> <<>>) @@ files
            /\ req' = Set(r, [req[r] EXCEPT
                                !.pc = "write",
                                !.next = @ + 1,
                                !.original_filename = field.filename[1],
                                !.f = [path |-> filepath, off |-> 0],
                                !.chunks = field.chunks])

\* The field has a filename: File::create(filepath) creates (truncates) the
\* upload file, or its error ends the request.
StoreField(r, field) ==
    LET filepath == PathJoin(uploads, field.filename[1])
    IN IF ~CanCreate(filepath)
       THEN /\ req' = Set(r, Respond(r, 500, "io error"))
            /\ UNCHANGED files
       ELSE /\ files' = (Resolve(filepath)[1] :> <<>>) @@ files
            /\ req' = Set(r, [req[r] EXCEPT
                                !.pc = "write",
                                !.next = @ + 1,
                                !.original_filename = field.filename[1],
                                !.f = [path |-> filepath, off |-> 0],
                                !.chunks = field.chunks])

\* (a handler that skips a field without a filename instead of refusing)
NextField_skip(r) ==
    /\ req[r].pc = "recv"
    /\ req[r].next <= Len(req[r].payload)
    /\ LET field == req[r].payload[req[r].next]
       IN IF field.filename = None
          THEN /\ req' = Set(r, [req[r] EXCEPT !.next = @ + 1])
               /\ UNCHANGED files
          ELSE StoreField(r, field)
    /\ UNCHANGED <<task_id_counter, mutex, poisoned, download>>
    /\ UNCHANGED call

\* payload.try_next() yields a field: without a filename the request is
\* refused, with one the field is stored under uploads.
NextField(r) ==
    /\ req[r].pc = "recv"
    /\ req[r].next <= Len(req[r].payload)
    /\ LET field == req[r].payload[req[r].next]
       IN IF field.filename = None
          THEN /\ req' = Set(r, Respond(r, 400, "No filename provided in the request"))
               /\ UNCHANGED files
          ELSE StoreField(r, field)
    /\ UNCHANGED <<task_id_counter, mutex, poisoned, download>>
    /\ UNCHANGED call

\* field.try_next() yields a chunk: f.write_all(&chunk) at the handle's offset.
WriteChunk(r) ==
    /\ req[r].pc = "write"
    /\ req[r].chunks # <<>>
    /\ LET chunk == Head(req[r].chunks)
           path == Resolve(req[r].f.path)[1]
       IN /\ files' = [files EXCEPT ![path] = WriteAt(@, req[r].f.off, chunk)]
          /\ req' = Set(r, [req[r] EXCEPT !.chunks = Tail(@),
                                          !.f.off = @ + Len(chunk)])
    /\ UNCHANGED <<task_id_counter, mutex, poisoned, download>>
    /\ UNCHANGED call

\* (an id taken for every stored part instead of one for the request)
FinishField_counts(r) ==
    /\ req[r].pc = "write"
    /\ req[r].chunks = <<>>
    /\ req' = Set(r, [req[r] EXCEPT !.pc = "recv",
                                    !.file_path = Some(req[r].f.path)])
    /\ task_id_counter' = NextTaskId(task_id_counter)
    /\ UNCHANGED <<mutex, poisoned, files, download>>
    /\ UNCHANGED call

\* (a chunk loop that may be left before the field is exhausted)
FinishField_early(r) ==
    /\ req[r].pc = "write"
    /\ req' = Set(r, [req[r] EXCEPT !.pc = "recv",
                                    !.file_path = Some(req[r].f.path)])
    /\ UNCHANGED <<task_id_counter, mutex, poisoned, files, download>>
    /\ UNCHANGED call

\* The field is exhausted: f.sync_all(), file_path = Some(filepath).
FinishField(r) ==
    /\ req[r].pc = "write"
    /\ req[r].chunks = <<>>
    /\ req' = Set(r, [req[r] EXCEPT !.pc = "recv",
                                    !.file_path = Some(req[r].f.path)])
    /\ UNCHANGED <<task_id_counter, mutex, poisoned, files, download>>
    /\ UNCHANGED call

\* The payload is exhausted: without an uploaded file the request is refused,
\* with one the handler goes on to lock the counter.
EndOfPayload(r) ==
    /\ req[r].pc = "recv"
    /\ req[r].next > Len(req[r].payload)
    /\ req' = Set(r, IF FileUploaded(req[r].file_path)
                     THEN [req[r] EXCEPT !.pc = "lock"]
                     ELSE Respond(r, 400, "No file uploaded"))
    /\ UNCHANGED <<task_id_counter, mutex, poisoned, files, download>>
    /\ UNCHANGED call

\* state.task_id_counter.lock().unwrap(): a poisoned mutex panics.
Lock(r) ==
    /\ req[r].pc = "lock"
    /\ Unlocked(r)
    /\ IF poisoned
       THEN /\ req' = Set(r, Panicked(r))
            /\ UNCHANGED mutex
       ELSE /\ req' = Set(r, [req[r] EXCEPT !.pc = "read"])
            /\ mutex' = r
    /\ UNCHANGED <<task_id_counter, poisoned, files, download>>
    /\ UNCHANGED call

\* let task_id = *task_id_counter + 1;
ReadCounter(r) ==
    /\ req[r].pc = "read"
    /\ req' = Set(r, [req[r] EXCEPT !.pc = "store",
                                    !.task_id = Some(NextTaskId(task_id_counter))])
    /\ UNCHANGED <<task_id_counter, mutex, poisoned, files, download>>
    /\ UNCHANGED call

\* *task_id_counter = task_id; then generate_output_filepath, whose panic
\* unwinds with the guard held and poisons the mutex.
StoreCounter(r) ==
    /\ req[r].pc = "store"
    /\ task_id_counter' = req[r].task_id[1]
    /\ LET out == generate_output_filepath(req[r].original_filename,
                                           req[r].output_format, req[r].task_id[1])
       IN IF out = None
          THEN /\ req' = Set(r, Panicked(r))
               /\ mutex' = 0
               /\ poisoned' = TRUE
          ELSE /\ req' = Set(r, [req[r] EXCEPT !.pc = "decode",
                                               !.output_file_path = out[1]])
               /\ UNCHANGED <<mutex, poisoned>>
    /\ UNCHANGED <<files, download>>
    /\ UNCHANGED call

\* (an error path that returns without dropping the guard)
Failed_held(r, e) ==
    /\ req' = Set(r, Respond(r, 500, e))
    /\ UNCHANGED mutex

\* Err(e) of convert_image: 500 "Conversion failed: {e}", the guard dropped.
Failed(r, e) ==
    /\ req' = Set(r, Respond(r, 500, e))
    /\ mutex' = 0

\* convert_image, up to the match on output_format: open and decode the
\* input, resize for ico, and leave by the default arm on any other format.
DecodeInput(r) ==
    /\ req[r].pc = "decode"
    /\ LET path == Resolve(req[r].file_path[1])
           decoded == Decode(files[path[1]])
       IN IF path = None \/ path[1] \notin DOMAIN files
          THEN Failed(r, "Failed to open input image")
          ELSE IF decoded = None
          THEN Failed(r, "Failed to decode image")
          ELSE IF ImageFormat(req[r].output_format) = 0
          THEN Failed(r, "Unsupported output format")
          ELSE /\ req' = Set(r, [req[r] EXCEPT
                                   !.pc = "save",
                                   !.img = Resized(decoded[1], req[r].output_format)])
               /\ UNCHANGED mutex
    /\ UNCHANGED <<task_id_counter, poisoned, files, download>>
    /\ UNCHANGED call

\* img.save_with_format creates (truncates) the output file.
SaveCreate(r) ==
    /\ req[r].pc = "save"
    /\ IF ~CanCreate(req[r].output_file_path)
       THEN /\ Failed(r, "Image conversion failed")
            /\ UNCHANGED files
       ELSE /\ files' = (Resolve(req[r].output_file_path)[1] :> <<>>) @@ files
            /\ req' = Set(r, [req[r] EXCEPT !.pc = "encode"])
            /\ UNCHANGED mutex
    /\ UNCHANGED <<task_id_counter, poisoned, download>>
    /\ UNCHANGED call

\* img.save_with_format encodes into the file: all of the image, or, when the
\* encoder or the disk fails, a part of it that stays on disk.
SaveEncode(r) ==
    /\ req[r].pc = "encode"
    /\ LET path == Resolve(req[r].output_file_path)[1]
           bytes == Encode(req[r].img, req[r].output_format)
       IN \/ /\ files' = [files EXCEPT ![path] = WriteAt(@, 0, bytes)]
             /\ req' = Set(r, [req[r] EXCEPT !.pc = "validate"])
             /\ UNCHANGED mutex
          \/ \E k \in 0..(Len(bytes) - 1) :
                /\ files' = [files EXCEPT ![path] = WriteAt(@, 0, SubSeq(bytes, 1, k))]
                /\ Failed(r, "Image conversion failed")
    /\ UNCHANGED <<task_id_counter, poisoned, download>>
    /\ UNCHANGED call

\* ImageReader::open(output_file), then the 200 response or the error.
Validate(r) ==
    /\ req[r].pc = "validate"
    /\ LET path == Resolve(req[r].output_file_path)
       IN IF path # None /\ path[1] \in DOMAIN files
          THEN req' = Set(r, [req[r] EXCEPT
                                !.pc = "done",
                                !.response = [status |-> 200,
                                              body |-> "json",
                                              task_id |-> req[r].task_id[1],
                                              converted_file |->
                                                ConvertedFile(req[r].output_file_path)]])
          ELSE req' = Set(r, Respond(r, 500, "Failed to reopen output image"))
    /\ mutex' = 0
    /\ UNCHANGED <<task_id_counter, poisoned, files, download>>
    /\ UNCHANGED call

\* (a resolver that serves only the artifacts of requests answered with 200)
serve_converted_image_ready(filename) ==
    /\ LET path == Resolve(PathJoin(downloads, filename))
       IN download' =
            IF /\ path # None /\ path[1] \in DOMAIN files
               /\ \E r \in Requests :
                     /\ req[r].pc = "done" /\ req[r].response.status = 200
                     /\ Resolve(req[r].output_file_path) = path
            THEN [name |-> filename, status |-> 200, body |-> files[path[1]]]
            ELSE [name |-> filename, status |-> 404, body |-> <<>>]
    /\ UNCHANGED <<task_id_counter, mutex, poisoned, files, req>>
    /\ UNCHANGED call

\* GET /download/{filename}
serve_converted_image(filename) ==
    /\ LET path == Resolve(PathJoin(downloads, filename))
       IN download' =
            IF path # None /\ path[1] \in DOMAIN files
            THEN [name |-> filename, status |-> 200, body |-> files[path[1]]]
            ELSE IF path # None /\ path[1] \in Dirs
            THEN [name |-> filename, status |-> 500, body |-> <<>>]
            ELSE [name |-> filename, status |-> 404, body |-> <<>>]
    /\ UNCHANGED <<task_id_counter, mutex, poisoned, files, req>>
    /\ UNCHANGED call

\* convert_image runs to its end without giving up the thread; requests on
\* other worker threads interleave with its file operations.
convert_image(r) ==
    \/ DecodeInput(r)
    \/ SaveCreate(r)
    \/ SaveEncode(r)
    \/ Validate(r)

convert_image_endpoint(r, inputs) ==
    \/ \E input \in inputs : Arrive(r, input)
    \/ NextField(r)
    \/ WriteChunk(r)
    \/ FinishField(r)
    \/ EndOfPayload(r)
    \/ Lock(r)
    \/ ReadCounter(r)
    \/ StoreCounter(r)
    \/ convert_image(r)

\* The service under the clients' requests.
Serve(inputs, names) ==
    \/ \E r \in Requests : convert_image_endpoint(r, inputs)
    \/ \E filename \in names : serve_converted_image(filename)

Next == Serve(Inputs, DownloadNames)

Spec == Init /\ [][Next]_vars

\* The same service under the requests that exercise the Task Allocator.
AllocatorInputs == {
    Request(png, <<File(name_a, wellFormed)>>),
    Request(fmt_x2png, <<File(name_a, garbage)>>),
    Request(png, <<>>) }
OneName == {<<"a", "_", "1", ".", "p", "n", "g">>}
SpecAllocator == Init /\ [][Serve(AllocatorInputs, OneName)]_vars

\* ... under the requests that exercise the Output Namer and the match on
\* output_format.
NamerInputs == {
    Request(png, <<File(name_a, wellFormed)>>),
    Request(png, <<File(name_a1x, wellFormed)>>),
    Request(fmt_x2png, <<File(name_a, wellFormed)>>) }
SpecNamer == Init /\ [][Serve(NamerInputs, OneName)]_vars

\* ... under the multipart bodies that exercise the Upload Receiver.
ReceiverInputs == {
    Request(png, <<File(name_a, wellFormed)>>),
    Request(png, <<>>),
    Request(png, <<File(name_a, wellFormed), NoFilename>>),
    Request(png, <<NoFilename, File(name_a, wellFormed)>>),
    Request(png, <<File(name_sub, wellFormed), NoFilename>>) }
SpecReceiver == Init /\ [][Serve(ReceiverInputs, OneName)]_vars

--------------------------------------------------------------------------
\* Vocabulary of the properties.
Done(r) == req[r].pc = "done"
HasId(r) == req[r].task_id # None
Id(r) == req[r].task_id[1]
\* The allocation of lines 51-53 is complete once the counter is stored.
AllocationComplete(r) == HasId(r) /\ req[r].pc # "store"
\* The Upload Receiver ended in an error: no id is asked for.
ReceiverErrors == {"No filename provided in the request", "No file uploaded", "io error"}
Uploaded(r) == Done(r) /\ req[r].response.body \notin ReceiverErrors
Ready(r) == Done(r) /\ req[r].response.status = 200
ReachedNamer(r) == req[r].output_file_path # <<>>
InConvert(r) == req[r].pc \in {"decode", "save", "encode", "validate"}
Stepped(r) == req'[r] # req[r]
\* The files of the persistent root.
Artifacts(fs) == [p \in {q \in DOMAIN fs : q[1] = downloads} |-> fs[p]]

--------------------------------------------------------------------------
\* C1: the task ids assigned so far are pairwise distinct and are exactly
\* 1..n for the n requests that have been assigned one, in every interleaving;
\* and once every request has ended, the requests that were assigned an id are
\* exactly those whose upload the receiver stored, so N such requests get
\* exactly the ids 1..N.
C1_IdsAreOneToN ==
    LET assigned == {r \in Requests : HasId(r)}
    IN /\ \A a, b \in assigned : a # b => Id(a) # Id(b)
       /\ {Id(r) : r \in assigned} = 1..Cardinality(assigned)
       /\ (\A r \in Requests : Done(r)) => assigned = {r \in Requests : Uploaded(r)}

\* Every request of the model has been assigned an id and has ended.
C1_Witness == \A r \in Requests : HasId(r) /\ Done(r)

\* C2: when a request is assigned its id, the id is greater than the id of
\* every request whose allocation is complete (so of every request whose
\* allocation completed before this one's began), and the counter never
\* decreases.
C2_AllocationOrdered ==
    [][/\ \A b \in Requests :
            (~HasId(b) /\ HasId(b)') =>
                \A a \in Requests \ {b} :
                    AllocationComplete(a) => Id(a) < Id(b)'
       /\ task_id_counter' >= task_id_counter]_vars

\* Two requests were allocated one after the other.
C2_Witness ==
    \E a, b \in Requests :
        AllocationComplete(a) /\ AllocationComplete(b) /\ Id(a) < Id(b)

\* C3 (as claimed): any two distinct requests that reached the Output Namer
\* have different output paths.
C3_OutputPathsUnique ==
    \A a, b \in Requests :
        (a # b /\ ReachedNamer(a) /\ ReachedNamer(b))
            => req[a].output_file_path # req[b].output_file_path

\* C3 (amended): any two distinct requests that reached the Output Namer with
\* target formats of the supported set have different output paths, which name
\* different files, also when they share the original filename and the format;
\* so no conversion writes to the path of another request's conversion.
C3_ConvertedPathsUnique ==
    \A a, b \in Requests :
        (/\ a # b
         /\ ReachedNamer(a) /\ req[a].output_format \in Supported
         /\ ReachedNamer(b) /\ req[b].output_format \in Supported)
            => /\ req[a].output_file_path # req[b].output_file_path
               /\ Resolve(req[a].output_file_path) # Resolve(req[b].output_file_path)

\* Two requests with the same original filename and target format were both
\* converted.
C3_Witness ==
    \E a, b \in Requests :
        /\ a # b /\ Ready(a) /\ Ready(b)
        /\ req[a].original_filename = req[b].original_filename
        /\ req[a].output_format = req[b].output_format

\* C5: no step of convert_image on a target format outside the supported set
\* creates or changes a file of the persistent root.
C5_UnsupportedWritesNothing ==
    [][\A r \in Requests :
          (InConvert(r) /\ req[r].output_format \notin Supported /\ Stepped(r))
              => Artifacts(files') = Artifacts(files)]_vars

\* convert_image has returned the unsupported-format error while another
\* request's artifact was stored.
C5_Witness ==
    \E r \in Requests :
        /\ Done(r) /\ req[r].response.body = "Unsupported output format"
        /\ DOMAIN Artifacts(files) # {}

\* C4 (as claimed): a request whose target format is outside the supported
\* set and that called convert_image is answered with the unsupported-format
\* error, whatever its input file holds.
C4_UnsupportedBeforeInput ==
    \A r \in Requests :
        (Done(r) /\ ReachedNamer(r) /\ req[r].output_format \notin Supported)
            => req[r].response.body = "Unsupported output format"

\* C6 (as claimed): a request whose output_format is outside the supported
\* set is answered with status 400.
C6_UnsupportedIsClientError ==
    \A r \in Requests :
        (Done(r) /\ req[r].output_format \notin Supported)
            => req[r].response.status = 400

\* The multipart body of request r has a field without a filename.
FilenamelessAt(r, i) == i \in 1..Len(req[r].payload) /\ req[r].payload[i].filename = None
HasFilenameless(r) == \E i \in 1..Len(req[r].payload) : FilenamelessAt(r, i)
\* Every field before the i-th has a filename the receiver can create.
StorableBefore(r, i) ==
    \A j \in 1..(i - 1) :
        /\ req[r].payload[j].filename # None
        /\ CanCreate(PathJoin(uploads, req[r].payload[j].filename[1]))

\* C7 (as claimed): a request with a field without a filename ends with the
\* 400 "no filename provided", whatever fields precede or follow it, and is
\* never assigned a task id.
C7_FilenamelessRefused ==
    \A r \in Requests :
        HasFilenameless(r) =>
            /\ ~HasId(r)
            /\ Done(r) => /\ req[r].response.status = 400
                          /\ req[r].response.body = "No filename provided in the request"

\* C7 (amended): a request with a field without a filename is never assigned
\* a task id, and it ends with the 400 "no filename provided" whatever fields
\* follow that field, provided the receiver could create the upload file of
\* every field before it; a field before it whose file cannot be created ends
\* the request with the I/O error instead.
C7_FilenamelessRefusedInOrder ==
    \A r \in Requests :
        \A i \in 1..Len(req[r].payload) :
            FilenamelessAt(r, i) =>
                /\ ~HasId(r)
                /\ (Done(r) /\ StorableBefore(r, i)) =>
                      /\ req[r].response.status = 400
                      /\ req[r].response.body = "No filename provided in the request"
                /\ (Done(r) /\ ~StorableBefore(r, i)) =>
                      req[r].response.body \in
                          {"No filename provided in the request", "io error"}

\* A request was refused at a field without a filename that came after a
\* stored field, and another at one that came first.
C7_Witness ==
    \E a, b \in Requests :
        /\ Done(a) /\ FilenamelessAt(a, 2) /\ StorableBefore(a, 2)
        /\ Done(b) /\ FilenamelessAt(b, 1) /\ Len(req[b].payload) = 2
        /\ task_id_counter = 0

\* The multipart body of request r, which has arrived, has no field.
EmptyBody(r) == req[r].pc # "idle" /\ req[r].payload = <<>>

\* C8: a request whose multipart body yields no field ends with the 400 "no
\* file uploaded" without a task id, and no step of it changes the counter,
\* its lock or a file of either storage root.
C8_NoFileRefused ==
    /\ [](\A r \in Requests :
            EmptyBody(r) =>
                /\ ~HasId(r) /\ ~InConvert(r)
                /\ Done(r) => /\ req[r].response.status = 400
                              /\ req[r].response.body = "No file uploaded")
    /\ [][\A r \in Requests :
            (EmptyBody(r)' /\ Stepped(r)) =>
                UNCHANGED <<task_id_counter, mutex, poisoned, files>>]_vars

\* A request with an empty body has been refused while the storage roots held
\* files and the counter had advanced.
C8_Witness ==
    \E r \in Requests :
        /\ EmptyBody(r) /\ Done(r)
        /\ task_id_counter > 0 /\ DOMAIN files # {}

\* C9 (as claimed): when convert_image re-opens the artifact and the file at
\* output_path cannot be decoded, the request does not end with 200.
C9_ValidationDecodes ==
    [][\A r \in Requests :
          (/\ req[r].pc = "validate" /\ Stepped(r)
           /\ Resolve(req[r].output_file_path)[1] \in DOMAIN files
           /\ Decode(files[Resolve(req[r].output_file_path)[1]]) = None)
              => req'[r].response.status # 200]_vars

\* The file of the artifact of request r holds the bytes the Conversion
\* Engine wrote for it.
ArtifactIntact(r, fs) ==
    /\ Resolve(req[r].output_file_path)[1] \in DOMAIN fs
    /\ fs[Resolve(req[r].output_file_path)[1]] = Encode(req[r].img, req[r].output_format)

\* C10 (as claimed): GET /download/{name} answers 404 when the joined path
\* names no file and the stored bytes when it names one; and the artifact of
\* a request that reached Ready, holding the bytes the Conversion Engine wrote,
\* is not overwritten, truncated or removed by any later step of a convert or
\* download request, so a GET of it returns those bytes.
C10_DownloadServesArtifact ==
    [][/\ \A name \in DownloadNames :
            serve_converted_image(name) =>
                LET path == Resolve(PathJoin(downloads, name))[1]
                IN /\ path \notin DOMAIN files => download'.status = 404
                   /\ path \in DOMAIN files =>
                         download'.status = 200 /\ download'.body = files[path]
       /\ \A r \in Requests :
            (Ready(r) /\ ArtifactIntact(r, files)) => ArtifactIntact(r, files')]_vars

--------------------------------------------------------------------------
\* The end-to-end scenario: cat.png converted to jpg, next to a request whose
\* upload is not an image.
name_cat == <<"c", "a", "t", ".", "p", "n", "g">>
cat_1_jpg == <<"c", "a", "t", "_", "1", ".", "j", "p", "g">>
cat_2_jpg == <<"c", "a", "t", "_", "2", ".", "j", "p", "g">>
EndToEndInputs == {
    Request(jpg, <<File(name_cat, wellFormed)>>),
    Request(png, <<File(name_a, garbage)>>) }
EndToEndNames == {cat_1_jpg, cat_2_jpg}
SpecEndToEnd == Init /\ [][Serve(EndToEndInputs, EndToEndNames)]_vars

\* The filename of the last part the client sent.
UploadedFilename(r) == req[r].payload[Len(req[r].payload)].filename[1]
\* The path "/download/<name>" a response refers to.
DownloadRef(name) ==
    <<"/", "d", "o", "w", "n", "l", "o", "a", "d", "/">> \o name
\* No other request was allocated an id before r.
FirstAllocated(r) ==
    HasId(r) /\ \A q \in Requests \ {r} : HasId(q) => Id(q) > Id(r)

--------------------------------------------------------------------------
\* Requests that fail in each way the handler can fail, next to a well-formed
\* one: a filename without a stem, an upload that is not an image, an
\* unsupported format, a part without a filename.
name_g == <<"g", ".", "b", "m", "p">>
name_h == <<"h", ".", "b", "m", "p">>
FailureInputs == {
    Request(png, <<File(name_a, wellFormed)>>),
    Request(png, <<File(DotDot, wellFormed)>>),
    Request(png, <<File(name_g, garbage)>>),
    Request(fmt_x2png, <<File(name_h, wellFormed), NoFilename>>) }
SpecFailures == Init /\ [][Serve(FailureInputs, OneName)]_vars

\* The steps of the handler during which the guard of line 51 is alive.
HoldsGuard(r) == req[r].pc \in {"read", "store", "decode", "save", "encode", "validate"}
WellFormedRequest(r) ==
    /\ req[r].pc # "idle"
    /\ req[r].payload = <<File(name_a, wellFormed)>>
    /\ req[r].output_format = png

\* C12: no failure of a request leaves the counter or its lock in a state that
\* makes other requests fail: the mutex is never poisoned, a request that has
\* ended (failed or not) does not hold the lock, the holder of the lock is
\* always a request in the middle of its allocation or conversion, the end of
\* a request never changes the counter, a request that asks for the lock gets
\* it and its id, and a well-formed request running next to or after failing
\* ones (none of them uploading under its filename) ends Ready unless its own
\* encoding fails.
C12_FailuresAreIndependent ==
    [][/\ ~poisoned
       /\ mutex \in Requests => HoldsGuard(mutex)
       /\ \A r \in Requests :
            /\ Done(r) => mutex # r
            /\ (Stepped(r) /\ req'[r].pc = "done")
                  => /\ task_id_counter' = task_id_counter
                     /\ mutex' # r
                     /\ ~poisoned'
            /\ (Stepped(r) /\ req[r].pc = "lock")
                  => req'[r].pc = "read" /\ mutex' = r
            /\ (Stepped(r) /\ req[r].pc = "store")
                  => req'[r].pc = "decode" /\ task_id_counter' = Id(r)
            /\ (/\ WellFormedRequest(r) /\ Done(r)
                /\ \A q \in Requests \ {r} : ~WellFormedRequest(q))
                  => \/ Ready(r)
                     \/ req[r].response.body = "Image conversion failed"
      ]_vars

\* A request failed in its conversion holding id 1, another failed in the
\* receiver, and a request allocated after the failure is Ready.
C12_Witness ==
    \E a, b \in Requests :
        /\ Done(a) /\ req[a].response.status = 500 /\ HasId(a)
        /\ req[a].response.body = "Failed to decode image"
        /\ Ready(b) /\ Id(b) > Id(a)

--------------------------------------------------------------------------
\* The steps the handler takes by itself once a request has arrived: the
\* worker thread that runs it is scheduled again and again, the client's
\* multipart stream delivers its parts and ends, and the mutex is handed to a
\* waiting thread once it is free.
Progress(r) ==
    \/ NextField(r)
    \/ WriteChunk(r)
    \/ FinishField(r)
    \/ EndOfPayload(r)
    \/ Lock(r)
    \/ ReadCounter(r)
    \/ StoreCounter(r)
    \/ convert_image(r)

FairInputs == {
    Request(png, <<File(name_a, wellFormed)>>),
    Request(png, <<File(name_g, garbage)>>) }
SpecFair ==
    /\ Init
    /\ [][Serve(FairInputs, OneName)]_vars
    /\ \A r \in Requests : WF_vars(Progress(r))

\* C13: under fair scheduling, every POST /convert that has arrived eventually
\* ends, Ready or Failed, whatever the other requests do: none waits for the
\* lock forever and none loops.
C13_EveryRequestEnds ==
    \A r \in Requests : (req[r].pc # "idle") ~> Done(r)

\* Every request has ended after taking the lock in turn, one of them failed.
C13_Witness ==
    /\ \A r \in Requests : Done(r) /\ HasId(r)
    /\ \E r \in Requests : req[r].response.status = 500
    /\ \E r \in Requests : Ready(r)

--------------------------------------------------------------------------
\* C14: the counter lock is released before the Conversion Engine does any
\* file I/O: no request holds the lock while it is decoding, encoding or
\* validating.
C14_LockReleasedBeforeConversion ==
    \A r \in Requests : InConvert(r) => mutex # r

--------------------------------------------------------------------------
\* The phases of a request, in the order of the handler's text: not arrived,
\* uploading (lines 34-49), allocating (51-55), converting (57), ended.
PhaseOf(pc) ==
    CASE pc = "idle" -> 0
      [] pc \in {"recv", "write"} -> 1
      [] pc \in {"lock", "read", "store"} -> 2
      [] pc \in {"decode", "save", "encode", "validate"} -> 3
      [] pc = "done" -> 4
Phase(r) == PhaseOf(req[r].pc)
RECURSIVE ByteCount(_)
ByteCount(chunks) ==
    IF chunks = <<>> THEN 0 ELSE Len(Head(chunks)) + ByteCount(Tail(chunks))
\* Every part of the payload was taken from the stream, and every chunk of the
\* last one written through the handle and synced.
UploadComplete(r) ==
    /\ req[r].payload # <<>>
    /\ req[r].next = Len(req[r].payload) + 1
    /\ req[r].chunks = <<>>
    /\ req[r].file_path = Some(req[r].f.path)
    /\ req[r].f.off = ByteCount(req[r].payload[Len(req[r].payload)].chunks)

\* C15: each request goes through uploading, allocating, converting and ended
\* in this order and never back; it asks for the lock and is allocated an id
\* only after its whole upload is written and synced, the Conversion Engine
\* runs only after the id is allocated and stored, and an ended request,
\* Ready or Failed, never changes again.
C15_PhasesInOrder ==
    [][\A r \in Requests :
         /\ PhaseOf(req'[r].pc) >= Phase(r)
         /\ Phase(r) \in {2, 3} => UploadComplete(r)
         /\ HasId(r) => UploadComplete(r) /\ Phase(r) >= 2
         /\ InConvert(r) => AllocationComplete(r) /\ task_id_counter >= Id(r)
         /\ Ready(r) => AllocationComplete(r)
         /\ Done(r) => req'[r] = req[r]
      ]_vars

\* One request ended Ready and another Failed in its conversion, each after
\* its upload and its allocation.
C15_Witness ==
    \E a, b \in Requests :
        /\ Ready(a) /\ UploadComplete(a)
        /\ Done(b) /\ req[b].response.status = 500 /\ HasId(b)
        /\ download.status = 200

\* (at most one request is inside convert_image, as the guard is still held)
OneConversionAtATime ==
    \A a, b \in Requests : InConvert(a) /\ InConvert(b) => a = b

--------------------------------------------------------------------------
\* Two uploads of different images under the same filename.
RECURSIVE Flatten(_)
Flatten(chunks) == IF chunks = <<>> THEN <<>> ELSE Head(chunks) \o Flatten(Tail(chunks))
wellFormedB == <<<<5, 3, 2, 8>>>>
RaceInputs == {
    Request(png, <<File(name_a, <<Flatten(wellFormed)>>)>>),
    Request(png, <<File(name_a, wellFormedB)>>) }
SpecRace == Init /\ [][Serve(RaceInputs, OneName)]_vars

\* The bytes the request uploaded in its last part.
OwnBytes(r) == Flatten(req[r].payload[Len(req[r].payload)].chunks)
\* The request has decoded its input (lines 95-107).
Decoded(r) == req[r].pc \in {"save", "encode", "validate"} \/ Ready(r)
\* Another request created a file at the path of r's upload.
SharesUploadPath(r, q) ==
    /\ q # r
    /\ req[q].f.path # <<>>
    /\ Resolve(req[q].f.path) = Resolve(req[r].file_path[1])

\* C16: the transient path of an upload is made of the filename only, so that
\* requests uploading under the same filename write and read the same file:
\* a conversion may work on an image that is not the one its request uploaded
\* (only) when another request created the file at the same path, and the
\* artifact of a Ready request encodes the image that conversion decoded.
C16_UploadPathKeyedByFilename ==
    \A r \in Requests :
        /\ req[r].f.path # <<>> =>
              req[r].f.path = PathJoin(uploads, req[r].original_filename)
        /\ \A q \in Requests :
              (/\ req[r].f.path # <<>> /\ req[q].f.path # <<>>
               /\ req[r].original_filename = req[q].original_filename)
              => req[r].f.path = req[q].f.path
        /\ (Decoded(r) /\ Some(req[r].img) # Decode(OwnBytes(r)))
              => \E q \in Requests : SharesUploadPath(r, q)
        /\ Ready(r) =>
              files[Resolve(req[r].output_file_path)[1]]
                 = Encode(req[r].img, req[r].output_format)

\* The request that uploaded the first image is Ready, and its artifact is the
\* encoding of the second image, uploaded by the other request under the same
\* filename after the first upload had ended.
C16_Witness ==
    \E a, b \in Requests :
        /\ a # b
        /\ Ready(a) /\ OwnBytes(a) = Flatten(wellFormed)
        /\ req[b].pc # "idle" /\ OwnBytes(b) = Flatten(wellFormedB)
        /\ files[Resolve(req[a].output_file_path)[1]]
             = Encode(Decode(Flatten(wellFormedB))[1], png)
        /\ files[Resolve(req[a].output_file_path)[1]]
             # Encode(Decode(OwnBytes(a))[1], png)

--------------------------------------------------------------------------
\* generate_output_filepath called on its own, on filenames with and without
\* a stem.
MaxTaskId == 3
name_hidden == <<".", "b", "m", "p">>
name_subup == <<"s", "/", ".", ".">>
NamerFilenames ==
    {name_a, name_a1x, name_cat, name_sub, name_hidden,
     <<>>, <<Slash>>, DotDot, name_subup}
NamerCalls ==
    [fn : {"generate_output_filepath"},
     filename : NamerFilenames,
     output_format : Supported \cup {fmt_x2png},
     task_id : 1..MaxTaskId,
     outcome : {"pending"},
     path : {<<>>}]

NamerCallInit == Fresh /\ call \in NamerCalls

\* The call returns a path, or file_stem().unwrap() panics: the function's
\* type (-> PathBuf) has no error value.
CallNamer ==
    /\ call.fn = "generate_output_filepath"
    /\ call.outcome = "pending"
    /\ LET out == generate_output_filepath(call.filename, call.output_format,
                                           call.task_id)
       IN call' = IF out = None
                  THEN [call EXCEPT !.outcome = "panic"]
                  ELSE [call EXCEPT !.outcome = "returned", !.path = out[1]]
    /\ UNCHANGED <<task_id_counter, mutex, poisoned, files, req, download>>

SpecNamerCall == NamerCallInit /\ [][CallNamer]_vars

--------------------------------------------------------------------------
\* The resize and encode of convert_image (lines 109-122) called on their
\* own, on decoded bitmaps of sizes below, at and above the ico box.
Dims == {1, 2, 3, 255, 256, 257, 300, 1000, 65535}
ResizeCalls ==
    [fn : {"resize"},
     w : Dims,
     h : Dims,
     output_format : Supported,
     outcome : {"pending"},
     encoded : {<<>>}]

ResizeCallInit == Fresh /\ call \in ResizeCalls

CallResize ==
    /\ call.fn = "resize"
    /\ call.outcome = "pending"
    /\ LET img == [w |-> call.w, h |-> call.h, pix |-> 0]
       IN call' = [call EXCEPT
                     !.outcome = "returned",
                     !.encoded = Encode(Resized(img, call.output_format),
                                        call.output_format)]
    /\ UNCHANGED <<task_id_counter, mutex, poisoned, files, req, download>>

SpecResizeCall == ResizeCallInit /\ [][CallResize]_vars

Abs(n) == IF n < 0 THEN -n ELSE n

\* C18: for ico the encoded bitmap fits the 256 x 256 box for every source
\* size (both sides between 1 and 256, one of them 256, the aspect ratio kept
\* up to the rounding of one pixel); for every other format the encoded
\* width and height are those of the source.
C18_IcoFitsBox ==
    (call.fn = "resize" /\ call.outcome = "returned") =>
        LET out == Decode(call.encoded)[1]
        IN IF call.output_format = ico
           THEN /\ out.w \in 1..IcoBox
                /\ out.h \in 1..IcoBox
                /\ out.w = IcoBox \/ out.h = IcoBox
                /\ Abs(out.w * call.h - out.h * call.w) < Max(call.w, call.h)
           ELSE out.w = call.w /\ out.h = call.h

\* A 1000 x 300 source was encoded as ico with width 256 and the height that
\* keeps the ratio.
C18_Witness ==
    /\ call.fn = "resize" /\ call.outcome = "returned"
    /\ call.w = 1000 /\ call.h = 300
    /\ call.output_format = ico
    /\ Decode(call.encoded)[1].w = 256
    /\ Decode(call.encoded)[1].h \in {76, 77}

--------------------------------------------------------------------------
\* Requests with two file parts, with a conversion that fails, and with
\* uploads that are refused or fail.
oneChunk == <<Flatten(wellFormed)>>
CounterInputs == {
    Request(png, <<File(name_a, oneChunk), File(name_g, wellFormed)>>),
    Request(fmt_x2png, <<File(name_h, garbage)>>),
    Request(png, <<File(name_a, oneChunk), NoFilename>>),
    Request(png, <<>>),
    Request(png, <<File(DotDot, oneChunk)>>) }
SpecCounter == Init /\ [][Serve(CounterInputs, OneName)]_vars

\* The upload phase of the request's payload runs to its end: at least one
\* part, every part with a filename and a file that can be created.
UploadFinishes(r) ==
    /\ req[r].payload # <<>>
    /\ \A i \in 1..Len(req[r].payload) :
          /\ req[r].payload[i].filename # None
          /\ CanCreate(PathJoin(uploads, req[r].payload[i].filename[1]))

\* C19: each request advances the counter at most once, and exactly once if
\* and only if its upload phase ran to its end with at least one file part
\* and no part without a filename: whatever the number of file parts, and
\* whether the conversion then succeeds or fails.
C19_OneIdPerUploadedRequest ==
    [][/\ task_id_counter = Cardinality({r \in Requests : AllocationComplete(r)})
       /\ task_id_counter' # task_id_counter =>
             /\ task_id_counter' = task_id_counter + 1
             /\ \E r \in Requests :
                   /\ req[r].pc = "store" /\ req'[r].pc # "store"
                   /\ Id(r) = task_id_counter'
                   /\ \A q \in Requests \ {r} : req'[q] = req[q]
       /\ \A r \in Requests :
             /\ HasId(r) => req'[r].task_id = req[r].task_id
             /\ HasId(r) => UploadFinishes(r)
             /\ Done(r) => (AllocationComplete(r) <=> UploadFinishes(r))
      ]_vars

\* A request whose conversion failed holds id 1, the only Ready request, of
\* two file parts, holds id 2, and the counter is 2.
C19_Witness ==
    \E a, b \in Requests :
        /\ Done(a) /\ req[a].response.status = 500 /\ HasId(a) /\ Id(a) = 1
        /\ Ready(b) /\ Id(b) = 2 /\ Len(req[b].payload) = 2
        /\ task_id_counter = 2

--------------------------------------------------------------------------
\* save_with_format has created the request's output file (lines 113-122):
\* the request is encoding or validating, is Ready, or its encode failed.
EncodeStarted(r) ==
    \/ req[r].pc \in {"encode", "validate"}
    \/ Ready(r)
    \/ /\ Done(r)
       /\ req[r].response.body = "Image conversion failed"
       /\ CanCreate(req[r].output_file_path)
\* GET /download/<name> reads the path the request's conversion writes to.
NamesOutputOf(name, r) ==
    /\ req[r].output_file_path # <<>>
    /\ Resolve(PathJoin(downloads, name)) = Resolve(req[r].output_file_path)

\* C20 as claimed: a GET answered with 200 returns the artifact of a request
\* that is Ready, never the file of a conversion that is still encoding or
\* whose encode or validation failed.
C20_DownloadServesOnlyReady ==
    [][\A name \in OneName :
         (serve_converted_image(name) /\ download'.status = 200)
         => \E r \in Requests : Ready(r) /\ NamesOutputOf(name, r)
      ]_vars

\* C20: a GET is answered with 200 and the bytes the file holds at that
\* moment whenever a file exists at the joined path, whatever the state of
\* the task that writes it: as soon as the conversion has created its output
\* file, also while it is still encoding and after its encode failed; and
\* only a path without a file is answered otherwise.
C20_DownloadServesExistingFile ==
    [][\A name \in OneName :
         serve_converted_image(name) =>
            LET path == Resolve(PathJoin(downloads, name))
            IN /\ download'.status = 200
                    <=> (path # None /\ path[1] \in DOMAIN files)
               /\ download'.status = 200 => download'.body = files[path[1]]
               /\ \A r \in Requests :
                     (EncodeStarted(r) /\ NamesOutputOf(name, r))
                     => download'.status = 200
      ]_vars

\* A GET was answered with 200 and no bytes for an artifact whose request is
\* still encoding.
C20_Witness ==
    \E r \in Requests :
        /\ req[r].pc = "encode"
        /\ NamesOutputOf(download.name, r)
        /\ download.status = 200
        /\ download.body = <<>>

====
